---- MODULE Spec2Model ----
(***************************************************************************)
(* A model of the Markdown renderer of src/renderer.go (package chrisdown). *)
(*                                                                         *)
(* Text is a sequence of atoms.  An atom is either one character of the    *)
(* input (a one-character string) or one string literal that the program   *)
(* writes as a whole (a tag such as "<p>" or an entity such as "&lt;").    *)
(* The output string of the program is the concatenation of the atoms of   *)
(* buffer.  No literal the program writes contains a character that any of *)
(* its regular expressions treats specially, so matching over atoms agrees *)
(* with matching over characters.                                          *)
(***************************************************************************)
EXTENDS Integers, Sequences, FiniteSets, TLC

\* ------------------------------------------------------------------ bounds

\* The largest number of lines of an input.
MaxLines == 3

\* The deepest list nesting an input line asks for (indentation 2*(d-1)).
MaxDepth == 3

\* ------------------------------------------------------------- characters

NL == "\n"

\* The backquote character (U+0060), which a string literal of this language
\* cannot hold: the atom that stands for it.
Tick == "BACKQUOTE"

Digits == {"0", "1", "2", "3", "4", "5", "6", "7", "8", "9"}

LowerAlpha ==
    {"a", "b", "c", "d", "e", "f", "g", "h", "i", "j", "k", "l", "m",
     "n", "o", "p", "q", "r", "s", "t", "u", "v", "w", "x", "y", "z"}

Roman == {"i", "v", "x", "I", "V", "X"}

Bullets == {"-", "*", "+"}

\* \s of the regular expressions, and the white space TrimSpace removes.
Spaces == {" ", "\t", "\r"}

\* ---------------------------------------------------------------- strings

Min(S) == CHOOSE x \in S : \A y \in S : x <= y

\* s[from..] (1-based), empty when from is past the end.
Drop(s, n) == SubSeq(s, n + 1, Len(s))

Take(s, n) == SubSeq(s, 1, n)

\* strings.HasPrefix
HasPrefix(s, p) == Len(s) >= Len(p) /\ SubSeq(s, 1, Len(p)) = p

\* Whether p occurs in s starting at position k.
OccursAt(s, p, k) ==
    /\ k >= 1
    /\ k + Len(p) - 1 <= Len(s)
    /\ SubSeq(s, k, k + Len(p) - 1) = p

\* The number of leading atoms of s that are in the set C.
LeadingRun(s, C) ==
    Cardinality({n \in 1..Len(s) : \A j \in 1..n : s[j] \in C})

\* The number of trailing atoms of s that are in the set C.
TrailingRun(s, C) ==
    Cardinality({n \in 1..Len(s) : \A j \in (Len(s) - n + 1)..Len(s) : s[j] \in C})

\* strings.TrimLeft(s, " ")
TrimLeftSpaces(s) == Drop(s, LeadingRun(s, {" "}))

\* strings.TrimSpace
TrimSpace(s) ==
    LET a == LeadingRun(s, Spaces)
        rest == Drop(s, a)
    IN  Take(rest, Len(rest) - TrailingRun(rest, Spaces))

\* strings.Split(s, "\n"): always at least one line.
RECURSIVE Split(_)
Split(s) ==
    LET hits == {k \in 1..Len(s) : s[k] = NL}
    IN  IF hits = {} THEN <<s>>
        ELSE LET k == Min(hits)
             IN  <<Take(s, k - 1)>> \o Split(Drop(s, k))

\* The inverse direction, used to build inputs: lines joined by "\n".
RECURSIVE Join(_)
Join(ls) ==
    IF Len(ls) = 0 THEN <<>>
    ELSE IF Len(ls) = 1 THEN ls[1]
    ELSE ls[1] \o <<NL>> \o Join(Tail(ls))

\* html.EscapeString: the five characters it replaces, each by its entity.
EscapeChar(c) ==
    CASE c = "<" -> "&lt;"
      [] c = ">" -> "&gt;"
      [] c = "&" -> "&amp;"
      [] c = "'" -> "&#39;"
      [] c = "\"" -> "&#34;"
      [] OTHER -> c

EscapeString(s) == [j \in 1..Len(s) |-> EscapeChar(s[j])]

\* ------------------------------------------------------- inline formatter

\* The first position >= from at which p occurs in s, 0 when there is none.
FindFrom(s, p, from) ==
    LET hits == {k \in from..Len(s) : OccursAt(s, p, k)}
    IN  IF hits = {} THEN 0 ELSE Min(hits)

\* ReplaceAllString for a pattern  d(.+?)d  (or  d([^d]+)d  when excl), with
\* the template  open $1 close : the leftmost match, its shortest inner text,
\* then on from the end of the match.
RECURSIVE ReplaceDelim(_, _, _, _, _)
ReplaceDelim(text, d, open, close, excl) ==
    LET n == Len(d)
        starts == {k \in 1..Len(text) :
                     /\ OccursAt(text, d, k)
                     /\ (excl => ~OccursAt(text, d, k + n))
                     /\ FindFrom(text, d, k + n + 1) # 0}
    IN  IF starts = {} THEN text
        ELSE LET k == Min(starts)
                 e == FindFrom(text, d, k + n + 1)
             IN  Take(text, k - 1) \o <<open>> \o SubSeq(text, k + n, e - 1)
                   \o <<close>> \o ReplaceDelim(Drop(text, e + n - 1), d, open, close, excl)

\* A match of  [g1](g2)  with its "[" at position b:  g1 = [^]]+ , g2 = [^)]+ .
BracketEnd(text, b) ==
    LET c == FindFrom(text, <<"]">>, b + 1)
        r == IF c = 0 THEN 0 ELSE FindFrom(text, <<")">>, c + 2)
    IN  IF /\ OccursAt(text, <<"[">>, b)
           /\ c >= b + 2
           /\ OccursAt(text, <<"(">>, c + 1)
           /\ r >= c + 3
        THEN r ELSE 0

BracketAlt(text, b) == SubSeq(text, b + 1, FindFrom(text, <<"]">>, b + 1) - 1)

BracketURL(text, b) ==
    SubSeq(text, FindFrom(text, <<"]">>, b + 1) + 2, BracketEnd(text, b) - 1)

\* ReplaceAllString of  !\[([^]]+)]\(([^)]+)\)  by  <img src="$2" alt="$1">
RECURSIVE ReplaceImages(_)
ReplaceImages(text) ==
    LET starts == {k \in 1..Len(text) :
                     OccursAt(text, <<"!">>, k) /\ BracketEnd(text, k + 1) # 0}
    IN  IF starts = {} THEN text
        ELSE LET k == Min(starts)
             IN  Take(text, k - 1) \o <<"<img src=\"">> \o BracketURL(text, k + 1)
                   \o <<"\" alt=\"">> \o BracketAlt(text, k + 1) \o <<"\">">>
                   \o ReplaceImages(Drop(text, BracketEnd(text, k + 1)))

\* ReplaceAllString of  \[([^]]+)]\(([^)]+)\)  by  <a href="$2">$1</a>
RECURSIVE ReplaceLinks(_)
ReplaceLinks(text) ==
    LET starts == {k \in 1..Len(text) : BracketEnd(text, k) # 0}
    IN  IF starts = {} THEN text
        ELSE LET k == Min(starts)
             IN  Take(text, k - 1) \o <<"<a href=\"">> \o BracketURL(text, k)
                   \o <<"\">">> \o BracketAlt(text, k) \o <<"</a>">>
                   \o ReplaceLinks(Drop(text, BracketEnd(text, k)))

\* handleInlineFormatting with the italic rewrites before the bold ones.
handleInlineFormattingItalicFirst(text) ==
    LET t1 == ReplaceImages(text)
        t2 == ReplaceDelim(t1, <<"*">>, "<em>", "</em>", FALSE)
        t3 == ReplaceDelim(t2, <<"_">>, "<em>", "</em>", FALSE)
        t4 == ReplaceDelim(t3, <<"*", "*">>, "<strong>", "</strong>", FALSE)
        t5 == ReplaceDelim(t4, <<"_", "_">>, "<strong>", "</strong>", FALSE)
        t6 == ReplaceDelim(t5, <<Tick>>, "<code>", "</code>", TRUE)
        t7 == ReplaceLinks(t6)
    IN  ReplaceDelim(t7, <<"~", "~">>, "<del>", "</del>", FALSE)

handleInlineFormatting(text) ==
    LET t1 == ReplaceImages(text)
        t2 == ReplaceDelim(t1, <<"*", "*">>, "<strong>", "</strong>", FALSE)
        t3 == ReplaceDelim(t2, <<"_", "_">>, "<strong>", "</strong>", FALSE)
        t4 == ReplaceDelim(t3, <<"*">>, "<em>", "</em>", FALSE)
        t5 == ReplaceDelim(t4, <<"_">>, "<em>", "</em>", FALSE)
        t6 == ReplaceDelim(t5, <<Tick>>, "<code>", "</code>", TRUE)
        t7 == ReplaceLinks(t6)
    IN  ReplaceDelim(t7, <<"~", "~">>, "<del>", "</del>", FALSE)

\* ------------------------------------------------------- image pre-pass

Http == <<"h", "t", "t", "p">>

DataColon == <<"d", "a", "t", "a", ":">>

\* strings.TrimLeft(path, "/")
TrimLeftSlashes(path) == Drop(path, LeadingRun(path, {"/"}))

\* IsAbsolutePath that knows "http" only.
IsAbsolutePathHttpOnly(path) == HasPrefix(path, Http)

\* strings.HasPrefix(parts[2], "http") || strings.HasPrefix(parts[2], "data:")
IsAbsolutePath(path) == HasPrefix(path, Http) \/ HasPrefix(path, DataColon)

\* A match of  !\[([^]]*)]\(([^)]+)\)  with its "!" at position k: the
\* position of its ")", 0 when there is no match at k.
PreImageEnd(text, k) ==
    LET c == FindFrom(text, <<"]">>, k + 2)
        r == IF c = 0 THEN 0 ELSE FindFrom(text, <<")">>, c + 2)
    IN  IF /\ OccursAt(text, <<"!", "[">>, k)
           /\ c # 0
           /\ OccursAt(text, <<"(">>, c + 1)
           /\ r >= c + 3
        THEN r ELSE 0

\* What the callback of ReplaceAllStringFunc returns for the match
\* ![alt](path).
RewriteImage(alt, path, base) ==
    IF ~IsAbsolutePath(path)
    THEN <<"!", "[">> \o alt \o <<"]", "(">>
           \o base \o <<"/">> \o TrimLeftSlashes(path) \o <<")">>
    ELSE <<"!", "[">> \o alt \o <<"]", "(">> \o path \o <<")">>

\* ReplaceAllStringFunc over the whole input: the leftmost match, then on
\* from its end.
RECURSIVE RewriteImages(_, _)
RewriteImages(text, base) ==
    LET starts == {k \in 1..Len(text) : PreImageEnd(text, k) # 0}
    IN  IF starts = {} THEN text
        ELSE LET k == Min(starts)
                 c == FindFrom(text, <<"]">>, k + 2)
                 r == PreImageEnd(text, k)
             IN  Take(text, k - 1)
                   \o RewriteImage(SubSeq(text, k + 2, c - 1),
                                   SubSeq(text, c + 2, r - 1), base)
                   \o RewriteImages(Drop(text, r), base)

\* if cfg.ImageBaseURL != "" { input = ...; lines = strings.Split(input, "\n") }
PreProcess(text, base) ==
    IF base # <<>> THEN RewriteImages(text, base) ELSE text

\* ------------------------------------------------------ line classification

\* len(lines[i]) - len(strings.TrimLeft(lines[i], " "))
Indentation(raw) == Len(raw) - Len(TrimLeftSpaces(raw))

\* The length of the list marker at the start of line, 0 when there is none:
\* [-*+] | \d+\. | [a-z]\. | [ivxIVX]+\.
MarkerLen(line) ==
    LET d == LeadingRun(line, Digits)
        r == LeadingRun(line, Roman)
    IN  IF Len(line) = 0 THEN 0
        ELSE IF line[1] \in Bullets THEN 1
        ELSE IF d >= 1 /\ Len(line) > d /\ line[d + 1] = "." THEN d + 1
        ELSE IF line[1] \in LowerAlpha /\ Len(line) >= 2 /\ line[2] = "." THEN 2
        ELSE IF r >= 1 /\ Len(line) > r /\ line[r + 1] = "." THEN r + 1
        ELSE 0

\* What  \s+(.+)$  captures at the start of rest, <<>> when it does not match.
AfterSpaces(rest) ==
    LET ws == LeadingRun(rest, Spaces)
    IN  IF ws = 0 THEN <<>>
        ELSE IF Len(rest) > ws THEN Drop(rest, ws)
        ELSE IF ws >= 2 THEN <<rest[ws]>>
        ELSE <<>>

\* ^([-*+]|\d+\.|[a-z]\.|[ivxIVX]+\.)\s+(.+)$
ListMatch(line) ==
    LET m == MarkerLen(line)
        content == AfterSpaces(Drop(line, m))
    IN  IF m = 0 \/ content = <<>>
        THEN [ok |-> FALSE, marker |-> <<>>, content |-> <<>>]
        ELSE [ok |-> TRUE, marker |-> Take(line, m), content |-> content]

\* ^(\d+\.|[a-z]\.|[ivxIVX]+\.)$  on a marker
IsOrderedMarker(marker) ==
    LET n == Len(marker)
        body == Take(marker, n - 1)
    IN  /\ n >= 2
        /\ marker[n] = "."
        /\ \/ \A j \in 1..(n - 1) : body[j] \in Digits
           \/ n = 2 /\ body[1] \in LowerAlpha
           \/ \A j \in 1..(n - 1) : body[j] \in Roman

\* ^\[([ xX])]\s+(.+)$
TaskMatch(content) ==
    LET rest == AfterSpaces(Drop(content, 3))
    IN  IF /\ Len(content) >= 3
           /\ content[1] = "["
           /\ content[2] \in {" ", "x", "X"}
           /\ content[3] = "]"
           /\ rest # <<>>
        THEN [ok |-> TRUE, mark |-> content[2], content |-> rest]
        ELSE [ok |-> FALSE, mark |-> " ", content |-> <<>>]

\* The three backquotes that open and close a code block.
Fence == <<Tick, Tick, Tick>>

\* Whether rem is  \s+{#([^}]+)}  up to the end of the line.
IsAnchorSuffix(rem) ==
    LET ws == LeadingRun(rem, Spaces)
        tail == Drop(rem, ws)
    IN  /\ ws >= 1
        /\ HasPrefix(tail, <<"{", "#">>)
        /\ Len(tail) >= 4
        /\ FindFrom(tail, <<"}">>, 3) = Len(tail)

AnchorId(rem) ==
    LET tail == Drop(rem, LeadingRun(rem, Spaces))
    IN  SubSeq(tail, 3, Len(tail) - 1)

\* ^(#{1,6})\s+(.+?)(?:\s+{#([^}]+)})?$
HeadingMatch(line) ==
    LET h == LeadingRun(line, {"#"})
        body == AfterSpaces(Drop(line, h))
        cuts == {t \in 1..Len(body) :
                   t = Len(body) \/ IsAnchorSuffix(Drop(body, t))}
        t == Min(cuts)
    IN  IF h < 1 \/ h > 6 \/ body = <<>>
        THEN [ok |-> FALSE, hashes |-> <<>>, text |-> <<>>, id |-> <<>>]
        ELSE [ok |-> TRUE,
              hashes |-> Take(line, h),
              text |-> Take(body, t),
              id |-> IF t = Len(body) THEN <<>> ELSE AnchorId(Drop(body, t))]

\* strconv.Itoa for the heading levels 1..6.
Itoa(n) == CHOOSE c \in Digits : c = ToString(n)

\* ------------------------------------------------------------------ state

VARIABLES
    imageBaseURL,  \* cfg.ImageBaseURL
    input,         \* the Markdown text handed to RenderMarkdown
    lines,         \* the lines of the text, its image paths rewritten
    i,             \* the loop index: the lines before lines[i+1] are done
    inParagraph,   \* state.inParagraph
    inCodeBlock,   \* state.inCodeBlock
    codeLanguage,  \* state.codeLanguage
    listStack,     \* state.listStack: records [isOrdered, depth], outermost first
    buffer,        \* the output written so far
    pc             \* "scan" inside the line loop, "done" after the return,
                   \* "panic" after an index out of range

vars ==
    <<imageBaseURL, input, lines, i, inParagraph, inCodeBlock, codeLanguage, listStack, buffer, pc>>

\* ----------------------------------------------------------------- inputs

\* The deepest heading level of the pattern  #{1,6} .
MaxHeadingLevel == 6

Rep(c, n) == [j \in 1..n |-> c]

ListBodies == {<<"-", " ", "a">>, <<"1", ".", " ", "a">>}

\* The lines every input may repeat freely: a blank line, a text line, a
\* fence, a heading, and bullet and numbered items at each depth.
CoreLines ==
    {<<>>, <<"a">>, Fence, <<"#", " ", "a">>}
      \cup {Rep(" ", 2 * (d - 1)) \o b : d \in 1..MaxDepth, b \in ListBodies}

\* Headings of every level, and one "#" too many.
HeadingLines ==
    {Rep("#", n) \o <<" ", "b">> : n \in 2..(MaxHeadingLevel + 1)}

\* Lines of which an input holds at most one.
ExtraLines ==
    HeadingLines \cup
    {<<" ", "-", " ", "a">>,
     <<" ", " ", " ", "-", " ", "a">>,
     <<"*", " ", "b">>,
     <<"a", ".", " ", "b">>,
     <<"i", "v", ".", " ", "b">>,
     <<"-", "a">>,
     <<"#", " ", "b", " ", "{", "#", "c", "}">>,
     Fence \o <<"g", "o">>,
     <<" ", " ", "b">>,
     <<"<", "&">>,
     <<"*", "*", "b", "*", "*">>,
     <<"-", " ", "[", "x", "]", " ", "a">>,
     <<"-", " ", "[", " ", "]", " ", "a">>,
     <<"!", "[", "b", "]", "(", "/", "c", ")">>}

AllLines == CoreLines \cup ExtraLines

\* The inputs: up to MaxLines lines, at most one of them an extra line.
IsInputLines(ls) == Cardinality({j \in DOMAIN ls : ls[j] \in ExtraLines}) <= 1

\* The base URL of the configuration, when it has one.
ImageBase == <<"h", "t", "t", "p", "s", ":", "/", "/", "e">>

\* The lines a text input may repeat freely.
TextCoreLines ==
    {<<>>, <<"a">>, Fence, <<"#", " ", "a">>, <<"-", " ", "a">>}

\* Lines with image spans: relative, absolute, without alt text, two in a
\* line, in a list item, with underscores, and near misses.
ImageLines ==
    {<<"!", "[", "b", "]", "(", "/", "c", ")">>,
     <<"!", "[", "b", "]", "(", "c", ")">>,
     <<"!", "[", "b", "]", "(", "/", "/", "c", ")">>,
     <<"!", "[", "b", "]", "(", "h", "t", "t", "p", ":", "c", ")">>,
     <<"!", "[", "b", "]", "(", "d", "a", "t", "a", ":", "c", ")">>,
     <<"!", "[", "]", "(", "c", ")">>,
     <<"a", "!", "[", "b", "]", "(", "c", ")", "!", "[", "d", "]", "(", "/", "e", ")">>,
     <<"-", " ", "!", "[", "b", "]", "(", "/", "c", ")">>,
     <<"!", "[", "b", "]", "(", "c", "_", "d", "_", "e", ")">>,
     <<"!", "[", "b", "_", "c", "_", "d", "]", "(", "e", ")">>,
     <<"[", "b", "]", "(", "c", ")">>,
     <<"!", "[", "b", "]", "(", "c">>}

\* Lines with inline spans, closed and unclosed.
SpanLines ==
    {<<"*", "*", "b", "*", "*">>,
     <<"a", " ", "*", "*", "b", "*", "*", " ", "c">>,
     <<"*", "*", "b", "*", "*", " ", "*", "*", "c", "*", "*">>,
     <<"*", "*", "b", "*", "*", " ", "!", "[", "c", "]", "(", "d", ")">>,
     <<"_", "_", "b", "_", "_">>,
     <<"*", "b", "*">>,
     <<"_", "b", "_">>,
     <<"*", "*", "b">>,
     <<"*", "*", "b", "_", "c", "_", "d", "*", "*">>,
     <<Tick, "b", Tick>>,
     <<"~", "~", "b", "~", "~">>}

\* List items with a task marker, and near misses.
TaskLines ==
    {<<"-", " ", "[", "x", "]", " ", "a">>,
     <<"-", " ", "[", "X", "]", " ", "a">>,
     <<"-", " ", "[", " ", "]", " ", "a">>,
     <<"1", ".", " ", "[", "x", "]", " ", "a">>,
     <<"-", " ", "[", "y", "]", " ", "a">>,
     <<"-", " ", "[", "x", "]", "a">>}

\* Malformed list, heading, code and link syntax.
MalformedLines ==
    {<<"-", "a">>,
     <<"#", "a">>,
     <<"1", ".", "a">>,
     <<Tick, "b">>,
     <<"#", "#", "#", "#", "#", "#", "#", " ", "b">>,
     <<"<", "&">>,
     <<"[", "b", "]">>}

TextExtraLines == ImageLines \cup SpanLines \cup TaskLines \cup MalformedLines

TextLines == TextCoreLines \cup TextExtraLines

\* The text inputs: up to MaxLines lines, at most one of them an extra line.
IsTextInput(ls) == Cardinality({j \in DOMAIN ls : ls[j] \in TextExtraLines}) <= 1

\* ------------------------------------------------------------- list levels

Level(isOrdered, depth) == [isOrdered |-> isOrdered, depth |-> depth]

Top(stack) == stack[Len(stack)]

Pop(stack) == SubSeq(stack, 1, Len(stack) - 1)

\* Depth without its "+ 1": depths counted from 0.
DepthFromZero(indent) == indent \div 2

\* depth := indent/2 + 1
Depth(indent) == (indent \div 2) + 1

\* CloseTag that ignores the kind of the level it closes.
CloseTagAlwaysUl(level) == "</ul>\n"

\* The closing tag of a list level.
CloseTag(level) == IF level.isOrdered THEN "</ol>\n" ELSE "</ul>\n"

\* switch depth % 3 of an ordered list
OrderedStyle(depth) ==
    CASE depth % 3 = 1 -> "decimal"
      [] depth % 3 = 2 -> "lower-alpha"
      [] depth % 3 = 0 -> "upper-roman"

\* switch depth % 3 of an unordered list
UnorderedStyle(depth) ==
    CASE depth % 3 = 1 -> "circle"
      [] depth % 3 = 2 -> "disc"
      [] depth % 3 = 0 -> "square"

OlOpen == "<ol style=\"list-style-type: "

UlOpen == "<ul style=\"list-style-type: "

StyleEnd == "\">\n"

\* The opening tag of a list, as the three writes that make it.
OpenTag(isOrdered, depth) ==
    IF isOrdered
    THEN <<OlOpen, OrderedStyle(depth), StyleEnd>>
    ELSE <<UlOpen, UnorderedStyle(depth), StyleEnd>>

\* CloseDeeper that also pops the levels of the item's own depth.
RECURSIVE CloseDeeperOrEqual(_, _)
CloseDeeperOrEqual(stack, depth) ==
    IF Len(stack) > 0 /\ Top(stack).depth >= depth
    THEN LET rest == CloseDeeperOrEqual(Pop(stack), depth)
         IN  [stack |-> rest.stack, out |-> <<CloseTag(Top(stack))>> \o rest.out]
    ELSE [stack |-> stack, out |-> <<>>]

\* "Close deeper lists": pop while the top level is deeper than depth.
RECURSIVE CloseDeeper(_, _)
CloseDeeper(stack, depth) ==
    IF Len(stack) > 0 /\ Top(stack).depth > depth
    THEN LET rest == CloseDeeper(Pop(stack), depth)
         IN  [stack |-> rest.stack, out |-> <<CloseTag(Top(stack))>> \o rest.out]
    ELSE [stack |-> stack, out |-> <<>>]

\* NeedsNewList that also starts a list for an item of the open list's own
\* depth and kind.
NeedsNewListAtSameDepth(stack, isOrdered, depth) ==
    \/ Len(stack) = 0
    \/ Top(stack).depth <= depth

\* NeedsNewList that does not look at the kind of the open list.
NeedsNewListIgnoringKind(stack, isOrdered, depth) ==
    \/ Len(stack) = 0
    \/ Top(stack).depth < depth

\* "If we're at a new depth or switching list types, start a new list"
NeedsNewList(stack, isOrdered, depth) ==
    \/ Len(stack) = 0
    \/ Top(stack).depth < depth
    \/ Top(stack).depth = depth /\ Top(stack).isOrdered # isOrdered

OpenList(stack, isOrdered, depth) ==
    IF NeedsNewList(stack, isOrdered, depth)
    THEN [stack |-> Append(stack, Level(isOrdered, depth)),
          out |-> OpenTag(isOrdered, depth)]
    ELSE [stack |-> stack, out |-> <<>>]

\* TaskChecked that knows the lower-case x only.
TaskCheckedLowerOnly(mark) == mark = "x"

\* checked := taskMatch[1] != " "
TaskChecked(mark) == mark # " "

\* The <li> element of an item, a task item with its checkbox.
ItemHTML(content) ==
    LET task == TaskMatch(content)
    IN  IF task.ok
        THEN <<"<li><input type=\"checkbox\" disabled">>
               \o (IF TaskChecked(task.mark) THEN <<" checked">> ELSE <<>>)
               \o <<"> ">> \o handleInlineFormatting(EscapeString(task.content))
               \o <<"</li>\n">>
        ELSE <<"<li>">> \o handleInlineFormatting(EscapeString(content))
               \o <<"</li>\n">>

\* ReadsNextLine without the test for the last line.
ReadsNextLineAlways(ls, idx) == TRUE

\* Whether the lookahead's condition gets to lines[i+1]: it does not when
\* i == len(lines)-1  has decided it.  idx is the 0-based index of the item's
\* line in ls.
ReadsNextLine(ls, idx) == idx # Len(ls) - 1

\* ListEnds that also ends the list before a line of the same indentation.
ListEndsOnEqualIndent(ls, idx, indent) ==
    \/ ~ReadsNextLine(ls, idx)
    \/ Len(TrimSpace(ls[idx + 2])) = 0
    \/ Indentation(ls[idx + 2]) <= indent

\* "If next line is empty or has less indent"
ListEnds(ls, idx, indent) ==
    \/ ~ReadsNextLine(ls, idx)
    \/ Len(TrimSpace(ls[idx + 2])) = 0
    \/ Indentation(ls[idx + 2]) < indent

\* The lookahead's loop: pop while the top level is at depth or deeper.
RECURSIVE CloseFrom(_, _)
CloseFrom(stack, depth) ==
    IF Len(stack) > 0 /\ Top(stack).depth >= depth
    THEN LET rest == CloseFrom(Pop(stack), depth)
         IN  [stack |-> rest.stack, out |-> <<CloseTag(Top(stack))>> \o rest.out]
    ELSE [stack |-> stack, out |-> <<>>]

\* CloseAll that leaves the outermost level open.
RECURSIVE CloseAllButOutermost(_)
CloseAllButOutermost(stack) ==
    IF Len(stack) > 1
    THEN <<CloseTag(Top(stack))>> \o CloseAllButOutermost(Pop(stack))
    ELSE <<>>

\* The closing tags of every level of stack, innermost first.
RECURSIVE CloseAll(_)
CloseAll(stack) ==
    IF Len(stack) > 0
    THEN <<CloseTag(Top(stack))>> \o CloseAll(Pop(stack))
    ELSE <<>>

PClose == "</p>\n"

PreOpen == "<pre><code"

PreClose == "</code></pre>\n"

\* if state.inParagraph { buffer.WriteString("</p>\n") ... }
CloseParagraph(open) == IF open THEN <<PClose>> ELSE <<>>

POpen == "<p>"

\* ParagraphStart that opens a paragraph for every text line.
ParagraphStartAlwaysOpens(open) == <<POpen>>

\* if !state.inParagraph { "<p>" } else { " " }
ParagraphStart(open) == IF open THEN <<" ">> ELSE <<POpen>>

\* HeadingLevel that counts one "#" too many.
HeadingLevelOffByOne(m) == Len(m.hashes) + 1

\* level := len(match[1])
HeadingLevel(m) == Len(m.hashes)

\* The element a heading line is rendered to.
HeadingHTML(m) ==
    <<"<h", Itoa(HeadingLevel(m))>>
      \o (IF m.id # <<>> THEN <<" id=\"">> \o m.id \o <<"\"">> ELSE <<>>)
      \o <<">">> \o handleInlineFormatting(EscapeString(m.text))
      \o <<"</h", Itoa(HeadingLevel(m)), ">\n">>

\* The <pre><code> tag of an opening fence line.
FenceLanguage(line) == TrimSpace(Drop(line, Len(Fence)))

FenceOpenHTML(language) ==
    <<PreOpen>>
      \o (IF language # <<>>
          THEN <<" class=\"language-">> \o EscapeString(language) \o <<"\"">>
          ELSE <<>>)
      \o <<">\n">>

\* ---------------------------------------------------------------- actions

\* The state in which the loop starts, for the text and configuration given.
Start ==
    /\ lines = Split(PreProcess(input, imageBaseURL))
    /\ i = 0
    /\ inParagraph = FALSE
    /\ inCodeBlock = FALSE
    /\ codeLanguage = <<>>
    /\ listStack = <<>>
    /\ buffer = <<>>
    /\ pc = "scan"

Init ==
    /\ \E n \in 1..MaxLines :
         \E ls \in [1..n -> AllLines] :
           /\ IsInputLines(ls)
           /\ input = Join(ls)
    /\ imageBaseURL = <<>>
    /\ Start

\* The loop is at a line.
Scanning == pc = "scan" /\ i < Len(lines)

\* line := strings.TrimSpace(lines[i])
CurLine == TrimSpace(lines[i + 1])

\* indent := len(lines[i]) - len(strings.TrimLeft(lines[i], " "))
CurIndent == Indentation(lines[i + 1])

IsListLine(line) == ListMatch(line).ok

IsFenceLine(line) == HasPrefix(line, Fence)

IsHeadingLine(line) == HeadingMatch(line).ok

\* "Handle empty lines"
EmptyLine ==
    /\ Scanning
    /\ CurLine = <<>>
    /\ buffer' = buffer \o CloseParagraph(inParagraph)
    /\ inParagraph' = FALSE
    /\ i' = i + 1
    /\ UNCHANGED <<imageBaseURL, input, lines, inCodeBlock, codeLanguage, listStack, pc>>

\* "Handle Lists"
ListItem ==
    /\ Scanning
    /\ CurLine # <<>>
    /\ IsListLine(CurLine)
    /\ LET m == ListMatch(CurLine)
           depth == Depth(CurIndent)
           isOrdered == IsOrderedMarker(m.marker)
           closed == CloseDeeper(listStack, depth)
           opened == OpenList(closed.stack, isOrdered, depth)
           ended == IF ListEnds(lines, i, CurIndent)
                    THEN CloseFrom(opened.stack, depth)
                    ELSE [stack |-> opened.stack, out |-> <<>>]
       IN  IF ReadsNextLine(lines, i) /\ i + 2 > Len(lines)
           THEN \* lines[i+1] is out of range: the run ends in a panic
                /\ buffer' = buffer \o CloseParagraph(inParagraph) \o closed.out
                               \o opened.out \o ItemHTML(m.content)
                /\ listStack' = opened.stack
                /\ pc' = "panic"
                /\ UNCHANGED i
           ELSE /\ buffer' = buffer \o CloseParagraph(inParagraph) \o closed.out
                               \o opened.out \o ItemHTML(m.content) \o ended.out
                /\ listStack' = ended.stack
                /\ pc' = pc
                /\ i' = i + 1
    /\ inParagraph' = FALSE
    /\ UNCHANGED <<imageBaseURL, input, lines, inCodeBlock, codeLanguage>>

\* A fence line: strings.HasPrefix(line, three backquotes)
CodeFence ==
    /\ Scanning
    /\ CurLine # <<>>
    /\ ~IsListLine(CurLine)
    /\ IsFenceLine(CurLine)
    /\ IF inCodeBlock
       THEN /\ buffer' = buffer \o <<PreClose>>
            /\ inCodeBlock' = FALSE
            /\ codeLanguage' = <<>>
       ELSE /\ codeLanguage' = FenceLanguage(CurLine)
            /\ buffer' = buffer \o FenceOpenHTML(FenceLanguage(CurLine))
            /\ inCodeBlock' = TRUE
    /\ i' = i + 1
    /\ UNCHANGED <<imageBaseURL, input, lines, inParagraph, listStack, pc>>

\* if state.inCodeBlock { buffer.WriteString(html.EscapeString(line) + "\n") }
CodeLine ==
    /\ Scanning
    /\ CurLine # <<>>
    /\ ~IsListLine(CurLine)
    /\ ~IsFenceLine(CurLine)
    /\ inCodeBlock
    /\ buffer' = buffer \o EscapeString(CurLine) \o <<NL>>
    /\ i' = i + 1
    /\ UNCHANGED <<imageBaseURL, input, lines, inParagraph, inCodeBlock, codeLanguage, listStack, pc>>

\* "Handle Headings"
Heading ==
    /\ Scanning
    /\ CurLine # <<>>
    /\ ~IsListLine(CurLine)
    /\ ~IsFenceLine(CurLine)
    /\ ~inCodeBlock
    /\ IsHeadingLine(CurLine)
    /\ buffer' = buffer \o CloseParagraph(inParagraph) \o HeadingHTML(HeadingMatch(CurLine))
    /\ inParagraph' = FALSE
    /\ i' = i + 1
    /\ UNCHANGED <<imageBaseURL, input, lines, inCodeBlock, codeLanguage, listStack, pc>>

\* "Handle regular paragraphs"
Paragraph ==
    /\ Scanning
    /\ CurLine # <<>>
    /\ ~IsListLine(CurLine)
    /\ ~IsFenceLine(CurLine)
    /\ ~inCodeBlock
    /\ ~IsHeadingLine(CurLine)
    /\ buffer' = buffer \o ParagraphStart(inParagraph)
                        \o handleInlineFormatting(EscapeString(CurLine))
    /\ inParagraph' = TRUE
    /\ i' = i + 1
    /\ UNCHANGED <<imageBaseURL, input, lines, inCodeBlock, codeLanguage, listStack, pc>>

\* "Close any remaining open tags", and return buffer.String()
CloseRemaining ==
    /\ pc = "scan"
    /\ i = Len(lines)
    /\ buffer' = buffer \o CloseParagraph(inParagraph) \o CloseAll(listStack)
                        \o (IF inCodeBlock THEN <<PreClose>> ELSE <<>>)
    /\ listStack' = <<>>
    /\ pc' = "done"
    /\ UNCHANGED <<imageBaseURL, input, lines, i, inParagraph, inCodeBlock, codeLanguage>>

Next ==
    \/ EmptyLine
    \/ ListItem
    \/ CodeFence
    \/ CodeLine
    \/ Heading
    \/ Paragraph
    \/ CloseRemaining

Spec == Init /\ [][Next]_vars

\* RenderMarkdown on text inputs, with and without an image base URL.
InitText ==
    /\ \E n \in 1..MaxLines :
         \E ls \in [1..n -> TextLines] :
           /\ IsTextInput(ls)
           /\ input = Join(ls)
    /\ imageBaseURL \in {<<>>, ImageBase}
    /\ Start

SpecText == InitText /\ [][Next]_vars


\* ----------------------------------------------------------------- claims

\* The number of atoms of s equal to a.
Count(s, a) == Cardinality({k \in 1..Len(s) : s[k] = a})

UlClose == "</ul>\n"

OlClose == "</ol>\n"

\* What one step of the loop appended to the output.
Appended == SubSeq(buffer', Len(buffer) + 1, Len(buffer'))

BoolToNat(b) == IF b THEN 1 ELSE 0

\* C1: when RenderMarkdown has returned nothing is left open: the list stack
\* is empty and the output holds exactly as many closing as opening tags of
\* each of <p>, <pre><code>, <ul> and <ol>.  On the way there no block is
\* closed twice: the tags opened and not yet closed are the paragraph, the
\* code block and the list levels the state records as open.
C1_NothingLeftOpen ==
    /\ pc = "scan" =>
         /\ Count(buffer, POpen) - Count(buffer, PClose) = BoolToNat(inParagraph)
         /\ Count(buffer, PreOpen) - Count(buffer, PreClose) = BoolToNat(inCodeBlock)
         /\ (Count(buffer, UlOpen) + Count(buffer, OlOpen))
              - (Count(buffer, UlClose) + Count(buffer, OlClose)) = Len(listStack)
    /\ pc = "done" =>
         /\ listStack = <<>>
         /\ Count(buffer, POpen) = Count(buffer, PClose)
         /\ Count(buffer, PreOpen) = Count(buffer, PreClose)
         /\ Count(buffer, UlOpen) = Count(buffer, UlClose)
         /\ Count(buffer, OlOpen) = Count(buffer, OlClose)

\* C1's case: the input ended with a paragraph, a list and a code block all
\* open, and the return closed the three.
C1_Witness ==
    /\ pc = "done"
    /\ inParagraph
    /\ inCodeBlock
    /\ Len(buffer) >= 3
    /\ SubSeq(buffer, Len(buffer) - 2, Len(buffer)) = <<PClose, UlClose, PreClose>>

Mismatch == <<"mismatch">>

\* The kinds ("ol", "ul") of the lists that the first n atoms of buf leave
\* open, outermost first; Mismatch once a closing tag met no open list or a
\* list of the other kind on top.
RECURSIVE OpenListsAfter(_, _)
OpenListsAfter(buf, n) ==
    IF n = 0 THEN <<>>
    ELSE LET st == OpenListsAfter(buf, n - 1)
             a == buf[n]
         IN  IF st = Mismatch THEN Mismatch
             ELSE IF a = OlOpen THEN Append(st, "ol")
             ELSE IF a = UlOpen THEN Append(st, "ul")
             ELSE IF a = OlClose
                  THEN IF Len(st) > 0 /\ st[Len(st)] = "ol" THEN Pop(st) ELSE Mismatch
             ELSE IF a = UlClose
                  THEN IF Len(st) > 0 /\ st[Len(st)] = "ul" THEN Pop(st) ELSE Mismatch
             ELSE st

KindOf(level) == IF level.isOrdered THEN "ol" ELSE "ul"

\* C2: every list closing tag in the output closes the most recently opened
\* list that is still open and is of that list's kind, and no list is closed
\* twice: read as a stack, the list tags of the output never mismatch, and
\* the lists they leave open are the levels of listStack, in order (none
\* left at the return).
C2_ListTagsLIFO ==
    /\ OpenListsAfter(buffer, Len(buffer)) # Mismatch
    /\ pc = "scan" =>
         OpenListsAfter(buffer, Len(buffer)) =
           [j \in 1..Len(listStack) |-> KindOf(listStack[j])]
    /\ pc = "done" => OpenListsAfter(buffer, Len(buffer)) = <<>>

\* C2's case: an <ol> opened inside a <ul> has been closed by </ol> while
\* the <ul> is still open.
C2_Witness ==
    /\ pc = "scan"
    /\ listStack = <<Level(FALSE, 1)>>
    /\ Count(buffer, UlOpen) = 1
    /\ Count(buffer, OlOpen) = 1
    /\ Count(buffer, OlClose) = 1

\* C3: at every point of the line scan at most one of inParagraph and
\* inCodeBlock is true (a fence line that opens a code block closes an open
\* paragraph first).
C3_ParagraphOrCodeBlock == pc = "scan" => ~(inParagraph /\ inCodeBlock)

\* C4, as claimed: the depths of listStack are strictly increasing from the
\* bottom to the top.
C4_StrictlyIncreasing ==
    \A j \in 1..(Len(listStack) - 1) : listStack[j].depth < listStack[j + 1].depth

\* C4, amended: the depths of listStack never decrease from the bottom to
\* the top, and two adjacent levels have the same depth only when one is
\* ordered and the other is not.
C4_IncreasingOrKindSwitch ==
    \A j \in 1..(Len(listStack) - 1) :
      \/ listStack[j].depth < listStack[j + 1].depth
      \/ /\ listStack[j].depth = listStack[j + 1].depth
         /\ listStack[j].isOrdered # listStack[j + 1].isOrdered

\* C4's case: a list opened inside a list of the same depth and of the other
\* kind.
C4_Witness ==
    /\ Len(listStack) = 2
    /\ listStack[1].depth = listStack[2].depth
    /\ listStack[1].isOrdered # listStack[2].isOrdered

\* C5: while inCodeBlock is true, a line that is not a fence line is written
\* out as its escaped text and a newline, and listStack and inParagraph stay
\* as they are.
C5_CodeLineVerbatim ==
    [][(Scanning /\ inCodeBlock /\ ~IsFenceLine(CurLine)) =>
         /\ Appended = EscapeString(CurLine) \o <<NL>>
         /\ listStack' = listStack
         /\ inParagraph' = inParagraph]_vars

\* The list-style-type the claim gives for a kind and depth % 3.
C6_Style(kind, r) ==
    CASE kind = "ul" /\ r = 1 -> "circle"
      [] kind = "ul" /\ r = 2 -> "disc"
      [] kind = "ul" /\ r = 0 -> "square"
      [] kind = "ol" /\ r = 1 -> "decimal"
      [] kind = "ol" /\ r = 2 -> "lower-alpha"
      [] kind = "ol" /\ r = 0 -> "upper-roman"

C7_IsPlainBullet(raw) ==
    /\ Len(raw) >= 3
    /\ raw[1] \in Bullets
    /\ raw[2] = " "
    /\ \A j \in 3..Len(raw) : raw[j] \in LowerAlpha

\* <li>text</li> for each line of ls, in order.
RECURSIVE C7_Items(_)
C7_Items(ls) ==
    IF Len(ls) = 0 THEN <<>>
    ELSE <<"<li>">> \o Drop(ls[1], 2) \o <<"</li>\n">> \o C7_Items(Tail(ls))

\* C7: for one or more unindented bullet items and a trailing newline the
\* result is "<ul>\n", one "<li>text</li>\n" per item, "</ul>\n": the bare
\* <ul> that TestRenderMarkdownBasic expects.
C7_BareUlAsTested ==
    (/\ pc = "done"
     /\ Len(lines) >= 2
     /\ lines[Len(lines)] = <<>>
     /\ \A j \in 1..(Len(lines) - 1) : C7_IsPlainBullet(lines[j]))
    => buffer = <<"<ul>\n">> \o C7_Items(Pop(lines)) \o <<"</ul>\n">>

Max(S) == CHOOSE x \in S : \A y \in S : x >= y

\* A bullet item at any indentation.
C8_IsBullet(raw) ==
    LET t == TrimLeftSpaces(raw)
    IN  Len(t) >= 3 /\ t[1] \in Bullets /\ t[2] = " " /\ t[3] # " "

C8_LeadingSpaces(raw) == Len(raw) - Len(TrimLeftSpaces(raw))

\* The input is bullet items of increasing indentation.
C8_IncreasingBullets ==
    /\ \A j \in 1..Len(lines) : C8_IsBullet(lines[j])
    /\ \A j \in 1..(Len(lines) - 1) :
         C8_LeadingSpaces(lines[j]) < C8_LeadingSpaces(lines[j + 1])

\* The depths indentation/2 + 1 of the lines of the input.
C8_Depths == {(C8_LeadingSpaces(lines[j]) \div 2) + 1 : j \in 1..Len(lines)}

C8_Opened == Count(buffer, UlOpen) + Count(buffer, OlOpen)

C8_Closed == Count(buffer, UlClose) + Count(buffer, OlClose)

\* C8, as claimed: for bullet items of increasing indentation the list tags
\* are correctly nested and the numbers of opening and of closing tags both
\* equal the largest depth reached.
C8_TagsEqualMaxDepth ==
    (pc = "done" /\ C8_IncreasingBullets) =>
      /\ OpenListsAfter(buffer, Len(buffer)) = <<>>
      /\ C8_Opened = Max(C8_Depths)
      /\ C8_Closed = Max(C8_Depths)

\* C8, amended: for bullet items of increasing indentation the list tags are
\* correctly nested and the numbers of opening and of closing tags both
\* equal the number of distinct depths among the items.
C8_TagsEqualDistinctDepths ==
    (pc = "done" /\ C8_IncreasingBullets) =>
      /\ OpenListsAfter(buffer, Len(buffer)) = <<>>
      /\ C8_Opened = Cardinality(C8_Depths)
      /\ C8_Closed = Cardinality(C8_Depths)

\* C8's case: three bullet items of increasing indentation, two of them of
\* one depth, rendered as two nested lists below a largest depth of 3.
C8_Witness ==
    /\ pc = "done"
    /\ C8_IncreasingBullets
    /\ Len(lines) = 3
    /\ Max(C8_Depths) = 3
    /\ C8_Opened = 2
    /\ C8_Closed = 2

\* A heading line: one to six "#", white space, text.
C9_Hashes(line) == Cardinality({n \in 1..Len(line) : \A j \in 1..n : line[j] = "#"})

C9_IsHeading(line) ==
    LET n == C9_Hashes(line)
    IN  /\ n \in 1..MaxHeadingLevel
        /\ Len(line) >= n + 2
        /\ line[n + 1] = " "
        /\ \E j \in (n + 2)..Len(line) : line[j] # " "

C9_Digit(n) == <<"1", "2", "3", "4", "5", "6">>[n]

\* C9: a heading line with N "#" (N in 1..6), outside a code block, first
\* closes an open paragraph and then writes exactly one element, opened by
\* <hN and closed by </hN> and a newline, N the number of "#"; inParagraph
\* is false afterwards.
C9_HeadingElement ==
    [][(Scanning /\ ~inCodeBlock /\ C9_IsHeading(CurLine)) =>
         LET n == C9_Hashes(CurLine)
             added == Appended
             elem == IF inParagraph THEN Tail(added) ELSE added
         IN  /\ inParagraph => Len(added) > 0 /\ Head(added) = PClose
             /\ Count(elem, PClose) = 0
             /\ Len(elem) >= 6
             /\ SubSeq(elem, 1, 2) = <<"<h", C9_Digit(n)>>
             /\ SubSeq(elem, Len(elem) - 2, Len(elem)) = <<"</h", C9_Digit(n), ">\n">>
             /\ Count(elem, "<h") = 1
             /\ Count(elem, "</h") = 1
             /\ ~inParagraph']_vars

\* C9's case: an <h6> written right after the </p> that closed the
\* paragraph open before it.
C9_Witness ==
    /\ ~inParagraph
    /\ ~inCodeBlock
    /\ Len(buffer) >= 9
    /\ SubSeq(buffer, 1, 5) = <<POpen, "a", PClose, "<h", "6">>
    /\ SubSeq(buffer, Len(buffer) - 2, Len(buffer)) = <<"</h", "6", ">\n">>

\* The text of a line: the line without the white space around it.
C10_Text(raw) == TrimSpace(raw)

\* No line of the input is a list item, a fence or a heading, and no line
\* holds an inline span.
C10_NoMarkdown ==
    \A j \in 1..Len(lines) :
      LET t == C10_Text(lines[j])
      IN  /\ ~IsListLine(t)
          /\ ~IsFenceLine(t)
          /\ ~IsHeadingLine(t)
          /\ handleInlineFormatting(EscapeString(t)) = EscapeString(t)

C10_TextLines == {j \in 1..Len(lines) : C10_Text(lines[j]) # <<>>}

\* The escaped texts of the lines from..to that are not blank, joined by one
\* space.
RECURSIVE C10_Joined(_, _)
C10_Joined(from, to) ==
    IF from > to THEN <<>>
    ELSE IF from \notin C10_TextLines THEN C10_Joined(from + 1, to)
    ELSE EscapeString(C10_Text(lines[from]))
           \o (IF \E j \in (from + 1)..to : j \in C10_TextLines THEN <<" ">> ELSE <<>>)
           \o C10_Joined(from + 1, to)

\* C10, as claimed: an input without Markdown syntax is rendered as a single
\* paragraph: one <p>, the escaped text of the lines joined by single spaces,
\* one </p>.
C10_SingleParagraph ==
    (pc = "done" /\ C10_NoMarkdown) =>
      buffer = <<POpen>> \o C10_Joined(1, Len(lines)) \o <<PClose>>

\* The input has text, and no blank line between two lines of text.
C10_OneBlockOfText ==
    /\ C10_TextLines # {}
    /\ \A j \in 1..Len(lines) :
         (Min(C10_TextLines) < j /\ j < Max(C10_TextLines)) => j \in C10_TextLines

\* C10, amended: an input without Markdown syntax that has text, and no
\* blank line between two lines of text, is rendered as a single paragraph:
\* one <p>, the escaped text of the lines (each without the white space
\* around it) joined by single spaces, one </p>.
C10_SingleParagraphOfOneBlock ==
    (pc = "done" /\ C10_NoMarkdown /\ C10_OneBlockOfText) =>
      buffer = <<POpen>> \o C10_Joined(1, Len(lines)) \o <<PClose>>

\* C10's case: two lines of text, one of them with characters to escape,
\* and a trailing blank line, rendered as one paragraph.
C10_Witness ==
    /\ pc = "done"
    /\ C10_NoMarkdown
    /\ C10_OneBlockOfText
    /\ buffer = <<POpen, "a", " ", "&lt;", "&amp;", PClose>>
    /\ Len(lines) = 3

\* Whether s begins with the characters of p.
C11_StartsWith(s, p) == Len(s) >= Len(p) /\ SubSeq(s, 1, Len(p)) = p

\* path without its leading slashes.
C11_Stripped(path) ==
    LET rest == {k \in 1..Len(path) : path[k] # "/"}
    IN  IF rest = {} THEN <<>> ELSE SubSeq(path, Min(rest), Len(path))

\* The path the claim gives an image span under the base URL base.
C11_Path(path, base) ==
    IF C11_StartsWith(path, <<"h", "t", "t", "p">>)
         \/ C11_StartsWith(path, <<"d", "a", "t", "a", ":">>)
    THEN path
    ELSE base \o <<"/">> \o C11_Stripped(path)

\* The positions <<c, r>> of the "]" and the ")" of an image span
\* ![alt](path) that starts at position k of text, <<0, 0>> when no span
\* starts there: alt holds no "]", path is not empty and holds no ")".
C11_SpanAt(text, k) ==
    LET cs == {c \in (k + 2)..Len(text) : text[c] = "]"}
        c == IF cs = {} THEN 0 ELSE Min(cs)
        rs == {r \in (c + 2)..Len(text) : text[r] = ")"}
        r == IF c = 0 \/ rs = {} THEN 0 ELSE Min(rs)
    IN  IF /\ k + 1 <= Len(text)
           /\ text[k] = "!"
           /\ text[k + 1] = "["
           /\ c # 0
           /\ c + 1 <= Len(text)
           /\ text[c + 1] = "("
           /\ r > c + 2
        THEN <<c, r>> ELSE <<0, 0>>

\* text with the path of every image span replaced as the claim says, read
\* from left to right.
RECURSIVE C11_Rewritten(_, _)
C11_Rewritten(text, base) ==
    IF text = <<>> THEN <<>>
    ELSE LET span == C11_SpanAt(text, 1)
         IN  IF span = <<0, 0>>
             THEN <<text[1]>> \o C11_Rewritten(Tail(text), base)
             ELSE SubSeq(text, 1, span[1] + 1)
                    \o C11_Path(SubSeq(text, span[1] + 2, span[2] - 1), base)
                    \o <<")">>
                    \o C11_Rewritten(SubSeq(text, span[2] + 1, Len(text)), base)

\* C11: with a base URL, the lines RenderMarkdown works on are those of the
\* input in which the path of every image span that starts with neither
\* "http" nor "data:" is the base URL, a "/" and the path without its leading
\* slashes, and every other image span is as it was; without a base URL they
\* are the lines of the input itself.
C11_ImagePathsRewritten ==
    /\ imageBaseURL # <<>> => Join(lines) = C11_Rewritten(input, imageBaseURL)
    /\ imageBaseURL = <<>> => Join(lines) = input

\* C11's case: an image with the path //c was rendered under the base URL,
\* and its src is the base URL, one "/" and c.
C11_Witness ==
    /\ pc = "done"
    /\ imageBaseURL = ImageBase
    /\ input = <<"!", "[", "b", "]", "(", "/", "/", "c", ")">>
    /\ buffer = <<POpen, "<img src=\"">> \o ImageBase \o <<"/", "c">>
                  \o <<"\" alt=\"", "b", "\">", PClose>>

\* The step just taken wrote a line of paragraph text.
ParagraphStep ==
    /\ i' = i + 1
    /\ inParagraph'
    /\ ~inCodeBlock
    /\ ~inCodeBlock'

\* Characters no rewrite of handleInlineFormatting looks for.
C12_PlainChars == LowerAlpha \cup {" ", ":", "/", "."}

C12_IsPlain(s) == \A k \in 1..Len(s) : s[k] \in C12_PlainChars

\* The end of a span **text** with plain, non-empty text that starts at the
\* head of s, 0 when there is none.
C12_BoldEnd(s) ==
    LET ends == {e \in 5..Len(s) :
                   /\ SubSeq(s, 1, 2) = <<"*", "*">>
                   /\ SubSeq(s, e - 1, e) = <<"*", "*">>
                   /\ C12_IsPlain(SubSeq(s, 3, e - 2))}
    IN  IF ends = {} THEN 0 ELSE Min(ends)

\* The position of the "]" of a span ![alt](url) with plain, non-empty alt
\* and url that starts at the head of s, 0 when there is none.
C12_ImageMid(s) ==
    LET mids == {c \in 4..Len(s) :
                   /\ SubSeq(s, 1, 2) = <<"!", "[">>
                   /\ C12_IsPlain(SubSeq(s, 3, c - 1))
                   /\ c + 1 <= Len(s)
                   /\ SubSeq(s, c, c + 1) = <<"]", "(">>}
    IN  IF mids = {} THEN 0 ELSE Min(mids)

C12_ImageEnd(s) ==
    LET c == C12_ImageMid(s)
        ends == {e \in (c + 3)..Len(s) :
                   /\ s[e] = ")"
                   /\ C12_IsPlain(SubSeq(s, c + 2, e - 1))}
    IN  IF c = 0 \/ ends = {} THEN 0 ELSE Min(ends)

\* s is plain text with spans **text** and ![alt](url) in it.
RECURSIVE C12_OnlySpans(_)
C12_OnlySpans(s) ==
    IF s = <<>> THEN TRUE
    ELSE IF s[1] \in C12_PlainChars THEN C12_OnlySpans(Tail(s))
    ELSE IF C12_BoldEnd(s) # 0
         THEN C12_OnlySpans(SubSeq(s, C12_BoldEnd(s) + 1, Len(s)))
    ELSE IF C12_ImageEnd(s) # 0
         THEN C12_OnlySpans(SubSeq(s, C12_ImageEnd(s) + 1, Len(s)))
    ELSE FALSE

\* Such a text with one <strong> element for each span **text** and one <img>
\* element for each span ![alt](url).
RECURSIVE C12_Elements(_)
C12_Elements(s) ==
    IF s = <<>> THEN <<>>
    ELSE IF s[1] \in C12_PlainChars THEN <<s[1]>> \o C12_Elements(Tail(s))
    ELSE IF C12_BoldEnd(s) # 0
         THEN <<"<strong>">> \o SubSeq(s, 3, C12_BoldEnd(s) - 2) \o <<"</strong>">>
                \o C12_Elements(SubSeq(s, C12_BoldEnd(s) + 1, Len(s)))
    ELSE <<"<img src=\"">> \o SubSeq(s, C12_ImageMid(s) + 2, C12_ImageEnd(s) - 1)
           \o <<"\" alt=\"">> \o SubSeq(s, 3, C12_ImageMid(s) - 1) \o <<"\">">>
           \o C12_Elements(SubSeq(s, C12_ImageEnd(s) + 1, Len(s)))

\* C12: a paragraph line of plain text with spans **text** and ![alt](url) is
\* written with each **text** as one <strong>text</strong> and each
\* ![alt](url) as one <img src="url" alt="alt">, and with no <em> and no <a>
\* element.
C12_BoldAndImageFirst ==
    [][ParagraphStep /\ C12_OnlySpans(CurLine) =>
          /\ Tail(Appended) = C12_Elements(CurLine)
          /\ \A k \in 1..Len(Appended) :
               Appended[k] \notin {"<em>", "</em>", "<a href=\"", "</a>"}]_vars

\* C12's case: the line  **b** ![c](d)  was rendered, as a <strong> and an
\* <img> element.
C12_Witness ==
    /\ pc = "done"
    /\ imageBaseURL = <<>>
    /\ input = <<"*", "*", "b", "*", "*", " ", "!", "[", "c", "]", "(", "d", ")">>
    /\ buffer = <<POpen, "<strong>", "b", "</strong>", " ",
                  "<img src=\"", "d", "\" alt=\"", "c", "\">", PClose>>

\* Characters html.EscapeString replaces.
C13_Escaped == {"<", ">", "&", "'", "\""}

\* s is one image span ![alt](url) and nothing else: the position of its "]",
\* 0 when s is something else.
C13_ImageLineMid(s) ==
    LET cs == {c \in 1..Len(s) : s[c] = "]"}
        c == IF cs = {} THEN 0 ELSE Min(cs)
    IN  IF /\ Len(s) >= 7
           /\ SubSeq(s, 1, 2) = <<"!", "[">>
           /\ c >= 4
           /\ c + 2 < Len(s)
           /\ s[c + 1] = "("
           /\ s[Len(s)] = ")"
           /\ \A k \in 1..(Len(s) - 1) : s[k] # ")"
           /\ \A k \in 1..Len(s) : s[k] \notin C13_Escaped
        THEN c ELSE 0

\* C13: no later rewrite touches what the image rewrite has written: a
\* paragraph line that is one image span ![alt](url) is written as
\* <img src="url" alt="alt"> with url and alt exactly as they stand in the
\* line.
C13_ImageAttributesKept ==
    [][ParagraphStep /\ C13_ImageLineMid(CurLine) # 0 =>
          LET c == C13_ImageLineMid(CurLine)
          IN  Tail(Appended) =
                <<"<img src=\"">> \o SubSeq(CurLine, c + 2, Len(CurLine) - 1)
                  \o <<"\" alt=\"">> \o SubSeq(CurLine, 3, c - 1) \o <<"\">">>]_vars

\* The loop is at a list item whose content is a task marker, whitespace and
\* text.
C14_TaskItem ==
    /\ Scanning
    /\ IsListLine(CurLine)
    /\ LET content == ListMatch(CurLine).content
       IN  /\ Len(content) >= 5
           /\ content[1] = "["
           /\ content[2] \in {" ", "x", "X"}
           /\ content[3] = "]"
           /\ content[4] \in Spaces
           /\ \E k \in 5..Len(content) : content[k] \notin Spaces

C14_Mark == ListMatch(CurLine).content[2]

C14_Checkbox == "<li><input type=\"checkbox\" disabled"

\* C14: a list item whose content is [ ], [x] or [X], whitespace and text
\* is written as one <li><input type="checkbox" disabled ...> whose next
\* piece is the attribute checked when the bracket holds x or X, and the
\* closing "> " of the tag when it holds a space.
C14_CheckedIffMarked ==
    [][C14_TaskItem =>
          /\ Count(Appended, C14_Checkbox) = 1
          /\ \A k \in 1..Len(Appended) :
               Appended[k] = C14_Checkbox =>
                 /\ k + 1 <= Len(Appended)
                 /\ C14_Mark \in {"x", "X"} =>
                      Appended[k + 1] = " checked" /\ Appended[k + 2] = "> "
                 /\ C14_Mark = " " =>
                      Appended[k + 1] = "> " /\ Count(Appended, " checked") = 0]_vars

\* C14's case: the item  - [X] a  was rendered, with the attribute checked.
C14_Witness ==
    /\ pc = "done"
    /\ input = <<"-", " ", "[", "X", "]", " ", "a">>
    /\ Count(buffer, C14_Checkbox) = 1
    /\ Count(buffer, " checked") = 1

\* The loop index is inside its range and no read was out of range.
C15_InRange ==
    /\ pc # "panic"
    /\ i <= Len(lines)
    /\ pc = "done" => i = Len(lines)

\* C15: RenderMarkdown is total.  Every step of a run leaves the lines alone
\* and either takes line i and moves to line i + 1 or, past the last line,
\* returns; the index never passes the end and no read of lines (the
\* lookahead's lines[i+1] included) is out of range.  So the run of an input
\* of n lines takes its lines once each, in order, and has returned after
\* n + 1 steps.
C15_Total ==
    [][/\ C15_InRange
       /\ C15_InRange'
       /\ lines' = lines
       /\ IF i < Len(lines)
          THEN i' = i + 1 /\ pc' = "scan"
          ELSE i' = i /\ pc' = "done"]_vars

\* C15's case: a run over three lines, the last of them a list item (whose
\* lookahead has no next line to read), has returned.
C15_Witness ==
    /\ pc = "done"
    /\ Len(lines) = 3
    /\ i = 3
    /\ IsListLine(TrimSpace(lines[3]))

\* The loop is at a list item line.
ListStep == Scanning /\ IsListLine(CurLine)

\* The number of leading spaces of a line.
C16_LeadingSpaces(line) ==
    LET others == {k \in 1..Len(line) : line[k] # " "}
    IN  IF others = {} THEN Len(line) ELSE Min(others) - 1

\* The depth of the item at hand.
C16_Depth == (C16_LeadingSpaces(lines[i + 1]) \div 2) + 1

\* The condition of the claim: the item's line is the last one, or the next
\* line is blank, or the next line has fewer leading spaces.
C16_Ends ==
    \/ i + 1 = Len(lines)
    \/ \A k \in 1..Len(lines[i + 2]) : lines[i + 2][k] \in Spaces
    \/ C16_LeadingSpaces(lines[i + 2]) < C16_LeadingSpaces(lines[i + 1])

\* What the step wrote after the item's </li>.
C16_AfterItem ==
    LET ends == {k \in 1..Len(Appended) : Appended[k] = "</li>\n"}
    IN  SubSeq(Appended, Max(ends) + 1, Len(Appended))

\* The list the step opened for the item, if it opened one.
C16_Opened ==
    IF Count(Appended, OlOpen) = 1 THEN <<Level(TRUE, C16_Depth)>>
    ELSE IF Count(Appended, UlOpen) = 1 THEN <<Level(FALSE, C16_Depth)>>
    ELSE <<>>

\* The levels that are open when the item has been written: those of the
\* stack that are not deeper than the item, and the list opened for it.
C16_OpenAtItem ==
    LET NotDeeper(l) == l.depth <= C16_Depth
    IN  SelectSeq(listStack, NotDeeper) \o C16_Opened

\* C16: after a list item of depth d the lookahead closes levels exactly
\* when the item's line is the last one or the next line is blank or has
\* fewer leading spaces.  Then the closing tags of the open levels of depth
\* >= d follow the item, innermost first, and the levels of depth < d stay
\* on the stack; otherwise nothing follows the item and the stack is the one
\* the item was written under.
C16_LookaheadCloses ==
    [][ListStep =>
          LET open == C16_OpenAtItem
              AtOrBelow(l) == l.depth >= C16_Depth
              Above(l) == l.depth < C16_Depth
              closing == SelectSeq(open, AtOrBelow)
              n == Len(closing)
          IN  IF C16_Ends
              THEN /\ C16_AfterItem = [j \in 1..n |->
                        IF closing[n + 1 - j].isOrdered THEN OlClose ELSE UlClose]
                   /\ n >= 1
                   /\ listStack' = SelectSeq(open, Above)
              ELSE /\ C16_AfterItem = <<>>
                   /\ listStack' = open]_vars

\* C16's case: an item of depth 1 followed by a blank line was written under
\* two open levels of depth 1, and the lookahead closed both.
C16_Witness ==
    /\ pc = "scan"
    /\ i = 2
    /\ Len(lines) = 3
    /\ lines[3] = <<>>
    /\ listStack = <<>>
    /\ Len(buffer) >= 2
    /\ SubSeq(buffer, Len(buffer) - 1, Len(buffer)) \in
         {<<OlClose, UlClose>>, <<UlClose, OlClose>>}

\* The kind of the item at hand: ordered unless its marker is -, * or +.
C17_Ordered == CurLine[1] \notin {"-", "*", "+"}

\* The stack once the levels deeper than the item have been popped.
C17_Popped ==
    LET NotDeeper(l) == l.depth <= C16_Depth
    IN  SelectSeq(listStack, NotDeeper)

\* The condition of the claim for opening a list.
C17_Opens ==
    \/ C17_Popped = <<>>
    \/ Top(C17_Popped).depth < C16_Depth
    \/ /\ Top(C17_Popped).depth = C16_Depth
       /\ Top(C17_Popped).isOrdered # C17_Ordered

\* The number of list closing tags among the first n atoms the step wrote.
C17_ClosedBefore(n) ==
    Cardinality({k \in 1..n : Appended[k] \in {UlClose, OlClose}})

\* C17: for a list item of depth d and kind k, with the levels deeper than d
\* popped, the step writes one opening tag, of kind k, and pushes {k, d}
\* exactly when the stack is empty, or its top is less deep than d, or its
\* top has depth d and the other kind; the only lists closed before that
\* opening tag are the deeper ones, so a list of the same depth and the other
\* kind stays open around the new one.  In every other case the step writes
\* no opening tag and pushes nothing.
C17_OpensNewList ==
    [][ListStep =>
          LET new == Level(C17_Ordered, C16_Depth)
              tag == IF C17_Ordered THEN OlOpen ELSE UlOpen
              opens == {k \in 1..Len(Appended) : Appended[k] \in {UlOpen, OlOpen}}
          IN  IF C17_Opens
              THEN /\ Cardinality(opens) = 1
                   /\ \A k \in opens :
                        /\ Appended[k] = tag
                        /\ C17_ClosedBefore(k) = Len(listStack) - Len(C17_Popped)
                   /\ ~C16_Ends => listStack' = Append(C17_Popped, new)
                   /\ C16_Ends => Len(C16_AfterItem) =
                        1 + Cardinality({k \in 1..Len(C17_Popped) :
                                           C17_Popped[k].depth = C16_Depth})
              ELSE /\ opens = {}
                   /\ ~C16_Ends => listStack' = C17_Popped
                   /\ C16_Ends => Len(C16_AfterItem) =
                        Cardinality({k \in 1..Len(C17_Popped) :
                                       C17_Popped[k].depth = C16_Depth})]_vars

\* C17's case: a numbered item of depth 1 was written under an open bullet
\* list of depth 1, and its <ol> was opened inside the <ul>, which is still
\* open.
C17_Witness ==
    /\ pc = "scan"
    /\ listStack = <<Level(FALSE, 1), Level(TRUE, 1)>>
    /\ Count(buffer, UlOpen) = 1
    /\ Count(buffer, OlOpen) = 1
    /\ Count(buffer, UlClose) = 0

\* The kind of block an opening tag opens, "" for any other atom.
C18_Opens(a) ==
    CASE a = POpen -> "p"
      [] a = PreOpen -> "pre"
      [] a = UlOpen -> "ul"
      [] a = OlOpen -> "ol"
      [] OTHER -> ""

\* The kind of block a closing tag closes, "" for any other atom.
C18_Closes(a) ==
    CASE a = PClose -> "p"
      [] a = PreClose -> "pre"
      [] a = UlClose -> "ul"
      [] a = OlClose -> "ol"
      [] OTHER -> ""

\* The kinds of the blocks that the first n atoms of buf leave open, outermost
\* first; Mismatch once a closing tag met no open block or a block of another
\* kind on top.
RECURSIVE C18_OpenBlocksAfter(_, _)
C18_OpenBlocksAfter(buf, n) ==
    IF n = 0 THEN <<>>
    ELSE LET st == C18_OpenBlocksAfter(buf, n - 1)
             a == buf[n]
         IN  IF st = Mismatch THEN Mismatch
             ELSE IF C18_Opens(a) # "" THEN Append(st, C18_Opens(a))
             ELSE IF C18_Closes(a) # ""
                  THEN IF Len(st) > 0 /\ st[Len(st)] = C18_Closes(a)
                       THEN Pop(st) ELSE Mismatch
             ELSE st

\* C18: the block tags of the output are properly nested across kinds: every
\* closing tag of <p>, <pre><code>, <ul> and <ol> closes the block opened
\* last among those still open.
C18_BlocksNested == C18_OpenBlocksAfter(buffer, Len(buffer)) # Mismatch

\* The loop is at a list item whose line follows the line of a list item of
\* the same depth and kind.
C19_SameDepthAndKind ==
    /\ ListStep
    /\ i >= 1
    /\ IsListLine(TrimSpace(lines[i]))
    /\ (C16_LeadingSpaces(lines[i]) \div 2) = (C16_LeadingSpaces(lines[i + 1]) \div 2)
    /\ (TrimSpace(lines[i])[1] \in {"-", "*", "+"}) = (CurLine[1] \in {"-", "*", "+"})

\* Nothing but the two <li> elements: the output so far ends with the first
\* item's </li> and the step's output starts with the second item's <li>.
C19_Siblings ==
    /\ buffer # <<>>
    /\ buffer[Len(buffer)] = "</li>\n"
    /\ Appended[1] \in {"<li>", C14_Checkbox}

\* C19, as claimed: between the <li> elements of two consecutive list-item
\* lines of the same depth and kind no list tag is written.
C19_SameDepthSiblings ==
    [][C19_SameDepthAndKind => C19_Siblings]_vars

\* C19, amended: that holds when the second line has at least as many leading
\* spaces as the first.  When it has fewer (1 and 0, or 3 and 2 leading
\* spaces), the lookahead has closed the first item's list and the second
\* item opens a new one.
C19_SiblingsUnlessDedent ==
    [][C19_SameDepthAndKind =>
          IF C16_LeadingSpaces(lines[i + 1]) >= C16_LeadingSpaces(lines[i])
          THEN C19_Siblings
          ELSE /\ buffer[Len(buffer)] \in {UlClose, OlClose}
               /\ Appended[1] \in {UlOpen, OlOpen}]_vars

\* C19's case: two bullet items without indentation were written one after
\* the other, into one list.
C19_Witness ==
    /\ pc = "scan"
    /\ i = 2
    /\ Len(lines) = 3
    /\ lines[1] = <<"-", " ", "a">>
    /\ lines[2] = <<"-", " ", "a">>
    /\ buffer = OpenTag(FALSE, 1) \o <<"<li>", "a", "</li>\n", "<li>", "a", "</li>\n">>

\* C20: in every reachable state the depths of listStack do not decrease from
\* the bottom to the top, every depth is at least 1, and two adjacent levels
\* of the same depth are one ordered and one unordered.
C20_StackShape ==
    /\ \A j \in 1..Len(listStack) : listStack[j].depth >= 1
    /\ \A j \in 1..(Len(listStack) - 1) :
         /\ listStack[j].depth <= listStack[j + 1].depth
         /\ listStack[j].depth = listStack[j + 1].depth =>
              listStack[j].isOrdered # listStack[j + 1].isOrdered

\* C20's case: a bullet list of depth 3 is open inside a numbered list of
\* depth 1, with no level of depth 2 between them.
C20_Witness ==
    /\ pc = "scan"
    /\ listStack = <<Level(TRUE, 1), Level(FALSE, 3)>>

====
